---------------------------- MODULE Spec2Model ----------------------------
(***************************************************************************)
(* A model of uniai-client: the page-range parser (internal/cli), the      *)
(* bounded-concurrency page scheduler and generation orchestrator of the   *)
(* `uniai` command (cmd/uniai.go), and the NDJSON streaming client         *)
(* (pkg/uniai).                                                            *)
(*                                                                         *)
(* Strings are sequences of one-character strings.  Result slots are       *)
(* indexed from 0 as in the Go source.                                     *)
(***************************************************************************)
EXTENDS Integers, Sequences, FiniteSets, TLC

(***************************************************************************)
(* Bounds of the model and constants of the program.                       *)
(***************************************************************************)
\* Largest page count of a document.
MaxPages == 4

\* Longest response body, in lines, of a streaming answer.
MaxLines == 3

\* Capacity of the admission gate: sem = make(chan struct{}, 3).
SemCap == 3

\* http.StatusBadRequest
StatusBadRequest == 400

\* pkg/uniai constants: Byte = 1; KiloByte = Byte * 1000
Byte == 1

KiloByte == Byte * 1000

\* const maxBufferSize = 512 * KiloByte
maxBufferSize == 512 * KiloByte

VARIABLES
    \* ---- the uniai command (cmd/uniai.go) ----
    pageRange,      \* the --pages flag
    numPages,       \* page count of the document
    isParallel,     \* the --parallel flag
    pageNumbers,    \* the page selector after parsing/expansion
    pc,             \* position of the command's main goroutine
    idx,            \* position of the render loop in pageNumbers (1-based)
    sem,            \* number of elements in the semaphore channel
    wg,             \* the WaitGroup counter
    task,           \* task[k]: position of the render of pageNumbers[k]
                    \* ("seq_..": rendered by the main goroutine itself)
    outcome,        \* outcome[k]: how the render of pageNumbers[k] ended
    wrote,          \* wrote[k]: slot indices the render of pageNumbers[k] wrote
    renderedPages,  \* the result slots, index 0 .. numPages-1
    gi,             \* position of the generation loop in renderedPages
    genLog,         \* what the generation loop did with each slot, in order
    \* ---- one streaming call (pkg/uniai Client.stream) ----
    api,            \* the call: "generate" or "chat"
    status,         \* HTTP status code of the response (0: no response)
    body,           \* the lines of the response body
    spc,            \* position of the call
    lineNo,         \* number of lines the scanner has delivered
    calls,          \* the invocations of the caller's handler, in order
    result,         \* the error the call returned
    \* ---- one call of cli.ParsePageRange ----
    parsed,         \* what the call returned
    \* ---- a client of pkg/uniai and its non-streaming calls ----
    args,           \* the arguments NewClient was called with
    client,         \* the Client NewClient returned
    sent,           \* the requests handed to the HTTP client, in order
    target,         \* the respData a call of do decodes into
    reads           \* how often do has read the current response's body

runVars == <<pageRange, numPages, isParallel, pageNumbers, pc, idx, sem, wg,
             task, outcome, wrote, renderedPages, gi, genLog>>
streamVars == <<api, status, body, spc, lineNo, calls, result>>
parseVars == <<parsed>>
clientVars == <<args, client, sent, target, reads>>
auxVars == <<parseVars, clientVars>>
vars == <<runVars, streamVars, auxVars>>

(***************************************************************************)
(* internal/cli: ParsePageRange                                            *)
(***************************************************************************)
Digits == <<"0", "1", "2", "3", "4", "5", "6", "7", "8", "9">>

IsDigit(c) == \E i \in 1..Len(Digits) : Digits[i] = c

DigitVal(c) == (CHOOSE i \in 1..Len(Digits) : Digits[i] = c) - 1

DigitChar(n) == Digits[n + 1]

\* strings.Contains(s, c) for a one-character c
Contains(s, c) == \E i \in 1..Len(s) : s[i] = c

\* strings.Split(s, c) for a one-character separator c
RECURSIVE Split(_, _)
Split(s, c) ==
    IF ~Contains(s, c)
    THEN <<s>>
    ELSE LET i == CHOOSE j \in 1..Len(s) :
                      s[j] = c /\ \A h \in 1..(j - 1) : s[h] # c
         IN  <<SubSeq(s, 1, i - 1)>> \o Split(SubSeq(s, i + 1, Len(s)), c)

\* the value of a non-empty sequence of digits
RECURSIVE DigitsVal(_)
DigitsVal(s) ==
    IF Len(s) = 0 THEN 0
    ELSE 10 * DigitsVal(SubSeq(s, 1, Len(s) - 1)) + DigitVal(s[Len(s)])

\* a conversion that reads the leading digits and ignores what follows them
AtoiLenient(s) ==
    LET signed == Len(s) > 0 /\ s[1] \in {"+", "-"}
        ds     == IF signed THEN SubSeq(s, 2, Len(s)) ELSE s
        n      == Cardinality({i \in 1..Len(ds) : \A h \in 1..i : IsDigit(ds[h])})
    IN  IF n = 0
        THEN [ok |-> FALSE, val |-> 0]
        ELSE [ok |-> TRUE,
              val |-> IF signed /\ s[1] = "-" THEN 0 - DigitsVal(SubSeq(ds, 1, n))
                      ELSE DigitsVal(SubSeq(ds, 1, n))]

\* strconv.Atoi: an optional sign, then one or more digits
Atoi(s) ==
    LET signed == Len(s) > 0 /\ s[1] \in {"+", "-"}
        ds     == IF signed THEN SubSeq(s, 2, Len(s)) ELSE s
    IN  IF Len(ds) = 0 \/ \E i \in 1..Len(ds) : ~IsDigit(ds[i])
        THEN [ok |-> FALSE, val |-> 0]
        ELSE [ok |-> TRUE,
              val |-> IF signed /\ s[1] = "-" THEN 0 - DigitsVal(ds)
                      ELSE DigitsVal(ds)]

\* the loop with i < end for i <= end
RangeSeqExclusive(start, end) ==
    IF start >= end THEN <<>> ELSE [i \in 1..(end - start) |-> start + i - 1]

\* for i := start; i <= end; i++ { pageNumbers = append(pageNumbers, i) }
RangeSeq(start, end) ==
    IF start > end THEN <<>> ELSE [i \in 1..(end - start + 1) |-> start + i - 1]

ParseOk(pages) == [kind |-> "ok", pages |-> pages, msg |-> ""]
ParseErr(msg)  == [kind |-> "err", pages |-> <<>>, msg |-> msg]
ParsePanic     == [kind |-> "panic", pages |-> <<>>, msg |-> "index out of range"]

\* The comma branch.  buf is pageNumbers, made with length 0 and capacity
\* len(ranges); the loop stores into buf[i] (0-based) without appending.
RECURSIVE CommaLoop(_, _, _)
CommaLoop(ranges, buf, i) ==
    IF i > Len(ranges) THEN ParseOk(buf)
    ELSE IF i > Len(buf) THEN ParsePanic
    ELSE LET a == Atoi(ranges[i])
         IN  IF ~a.ok THEN ParseErr("invalid page number")
             ELSE CommaLoop(ranges, [buf EXCEPT ![i] = a.val], i + 1)

CommaBranch(pr, pagesSoFar) ==
    IF Contains(pr, ",")
    THEN CommaLoop(Split(pr, ","), <<>>, 1)
    ELSE ParseOk(pagesSoFar)

DashBranch(pr) ==
    LET parts == Split(pr, "-")
    IN  IF Len(parts) # 2 THEN ParseErr("invalid page range format")
        ELSE LET start == Atoi(parts[1])
                 end   == Atoi(parts[2])
             IN  IF ~start.ok THEN ParseErr("invalid start page")
                 ELSE IF ~end.ok THEN ParseErr("invalid end page")
                 ELSE CommaBranch(pr, RangeSeq(start.val, end.val))

ParsePageRange(pr) ==
    IF pr = <<>> THEN ParseOk(<<>>)
    ELSE IF Contains(pr, "-") THEN DashBranch(pr)
    ELSE CommaBranch(pr, <<>>)

\* Longest page-range expression given to ParsePageRange on its own.
MaxLen == 4

\* the characters of those expressions
ParseAlphabet == {"0", "1", "2", "3", "+", "-", ",", "a"}

ParseInputs == UNION {[1..n -> ParseAlphabet] : n \in 0..MaxLen}

(***************************************************************************)
(* cmd/uniai.go: the uniai command                                         *)
(***************************************************************************)
\* The --pages values the command is run with: absent, dash expressions of
\* two digits (ascending, descending, starting at 0, ending past the last
\* page of a shorter document), and expressions that are no dash range.
PageRangeInputs ==
    {<<>>}
    \cup {<<DigitChar(a), "-", DigitChar(b)>> : a \in 0..2, b \in 0..MaxPages}
    \cup {<<"2">>, <<"1", "-">>, <<"1", ",", "2">>, <<"1", "-", "3", ",", "4">>}

\* the value of `result` while a streaming call has not returned
NotReturned == [kind |-> "none", code |-> 0, status |-> "", msg |-> ""]

\* renderedPage{}: the zero value of a result slot
EmptySlot == [pageNum |-> 0, filePath |-> <<>>]

\* cli.RenderPdfPage's path on success: outputDir + "/page_<N>.jpg"
RenderedPath(dir, pageNum) == <<dir, "/page_", pageNum, ".jpg">>

\* a store that ignores the page number: every render writes slot 0
SlotIndexShared(pageNum) == 0

\* the slot a render of pageNum stores into: renderedPages[pageNum-1]
SlotIndex(pageNum) == pageNum - 1

\* a range check that forgets the lower bound
InRangeUpperOnly(pageNum) == ~(pageNum > numPages)

InRange(pageNum) == ~(pageNum < 1 \/ pageNum > numPages)

Tasks == DOMAIN task

NoTasks == <<>>

\* *Client(nil)
NilClient == [isNil |-> TRUE, baseURL |-> <<>>, authBasic |-> <<>>]

\* respData before anything was decoded into it
Undecoded == [decoded |-> FALSE, version |-> ""]

\* the value of `parsed` before ParsePageRange has returned
NotParsed == [kind |-> "none", pages |-> <<>>, msg |-> ""]

IdleParse == parsed = NotParsed

IdleClient ==
    /\ args = <<>> /\ client = NilClient /\ sent = <<>>
    /\ target = Undecoded /\ reads = 0

IdleStream ==
    /\ api = "none" /\ status = 0 /\ body = <<>> /\ spc = "idle"
    /\ lineNo = 0 /\ calls = <<>> /\ result = NotReturned

Init ==
    /\ pageRange \in PageRangeInputs
    /\ numPages \in 1..MaxPages
    /\ isParallel \in BOOLEAN
    /\ pageNumbers = <<>>
    /\ pc = "parse"
    /\ idx = 1
    /\ sem = 0
    /\ wg = 0
    /\ task = NoTasks
    /\ outcome = NoTasks
    /\ wrote = NoTasks
    /\ renderedPages = <<>>
    /\ gi = 0
    /\ genLog = <<>>
    /\ IdleStream
    /\ IdleParse
    /\ IdleClient

\* if pageRange != "" { pageNumbers, err = cli.ParsePageRange(pageRange) ... }
ParseRange ==
    /\ pc = "parse"
    /\ LET r == ParsePageRange(pageRange)
       IN  IF pageRange = <<>> THEN
               /\ pc' = "open"
               /\ UNCHANGED pageNumbers
           ELSE IF r.kind = "panic" THEN
               /\ pc' = "panic"
               /\ UNCHANGED pageNumbers
           ELSE IF r.kind = "err" THEN
               /\ pc' = "return"
               /\ UNCHANGED pageNumbers
           ELSE
               /\ pc' = "open"
               /\ pageNumbers' = r.pages
    /\ UNCHANGED <<pageRange, numPages, isParallel, idx, sem, wg, task,
                   outcome, wrote, renderedPages, gi, genLog>>
    /\ UNCHANGED <<streamVars, auxVars>>

\* a command that keeps an empty selection as it is
ExpandPagesNever(pns, n) == pns

\* if len(pageNumbers) == 0 { for i := 1; i <= numPages; i++ { append } }
ExpandPages(pns, n) == IF Len(pns) = 0 THEN RangeSeq(1, n) ELSE pns

\* os.ReadFile, model.NewPdfReader, GetNumPages, the expansion of an empty
\* selector to all pages, make([]renderedPage, numPages) and os.MkdirAll.
\* Any of the four calls may fail, which ends the command.
OpenPdf ==
    /\ pc = "open"
    /\ \E failed \in BOOLEAN :
         IF failed THEN
             /\ pc' = "return"
             /\ UNCHANGED <<pageNumbers, task, outcome, wrote, renderedPages>>
         ELSE
             LET pns == ExpandPages(pageNumbers, numPages)
             IN  /\ pc' = "loop"
                 /\ pageNumbers' = pns
                 /\ task' = [k \in 1..Len(pns) |-> "new"]
                 /\ outcome' = [k \in 1..Len(pns) |-> "none"]
                 /\ wrote' = [k \in 1..Len(pns) |-> {}]
                 /\ renderedPages' = [s \in 0..(numPages - 1) |-> EmptySlot]
    /\ UNCHANGED <<pageRange, numPages, isParallel, idx, sem, wg, gi, genLog>>
    /\ UNCHANGED <<streamVars, auxVars>>

\* the head of `for _, pageNum := range pageNumbers` once the selector is
\* exhausted: control reaches wg.Wait()
LoopExit ==
    /\ pc = "loop"
    /\ idx > Len(pageNumbers)
    /\ pc' = "wait"
    /\ UNCHANGED <<pageRange, numPages, isParallel, pageNumbers, idx, sem, wg,
                   task, outcome, wrote, renderedPages, gi, genLog>>
    /\ UNCHANGED <<streamVars, auxVars>>

\* if pageNum < 1 || pageNum > numPages { println(...); continue }
SkipOutOfRange ==
    /\ pc = "loop"
    /\ idx <= Len(pageNumbers)
    /\ ~InRange(pageNumbers[idx])
    /\ idx' = idx + 1
    /\ outcome' = [outcome EXCEPT ![idx] = "skipped"]
    /\ UNCHANGED <<pageRange, numPages, isParallel, pageNumbers, pc, sem, wg,
                   task, wrote, renderedPages, gi, genLog>>
    /\ UNCHANGED <<streamVars, auxVars>>

\* a render loop that takes the goroutine branch whatever the flag says
UseGoroutineAlways == TRUE

\* the branch `if isParallel { ... } else { ... }` of the render loop
UseGoroutine == isParallel

\* if isParallel { wg.Add(1) ...
WgAdd ==
    /\ pc = "loop"
    /\ idx <= Len(pageNumbers)
    /\ InRange(pageNumbers[idx])
    /\ UseGoroutine
    /\ wg' = wg + 1
    /\ pc' = "acquire"
    /\ UNCHANGED <<pageRange, numPages, isParallel, pageNumbers, idx, sem,
                   task, outcome, wrote, renderedPages, gi, genLog>>
    /\ UNCHANGED <<streamVars, auxVars>>

\* a gate that admits every sender
CanAcquireAlways == TRUE

\* whether a send on the semaphore channel can proceed
CanAcquire == sem < SemCap

\* sem <- struct{}{}: blocks while the channel is full
Acquire ==
    /\ pc = "acquire"
    /\ CanAcquire
    /\ sem' = sem + 1
    /\ pc' = "spawn"
    /\ UNCHANGED <<pageRange, numPages, isParallel, pageNumbers, idx, wg,
                   task, outcome, wrote, renderedPages, gi, genLog>>
    /\ UNCHANGED <<streamVars, auxVars>>

\* go func(pageNum int) { ... }(pageNum)
Spawn ==
    /\ pc = "spawn"
    /\ task' = [task EXCEPT ![idx] = "run"]
    /\ idx' = idx + 1
    /\ pc' = "loop"
    /\ UNCHANGED <<pageRange, numPages, isParallel, pageNumbers, sem, wg,
                   outcome, wrote, renderedPages, gi, genLog>>
    /\ UNCHANGED <<streamVars, auxVars>>

\* in the goroutine: model.NewPdfReader; newReader.GetPage(pageNum)
TaskGetPage(k) ==
    /\ task[k] = "run"
    /\ \E err \in BOOLEAN :
         IF err THEN /\ task' = [task EXCEPT ![k] = "ret"]
                     /\ outcome' = [outcome EXCEPT ![k] = "failed"]
         ELSE /\ task' = [task EXCEPT ![k] = "got"]
              /\ UNCHANGED outcome
    /\ UNCHANGED <<pageRange, numPages, isParallel, pageNumbers, pc, idx, sem,
                   wg, wrote, renderedPages, gi, genLog>>
    /\ UNCHANGED <<streamVars, auxVars>>

\* in the goroutine: cli.RenderPdfPage(pageNum, page, outDir)
TaskRender(k) ==
    /\ task[k] = "got"
    /\ \E err \in BOOLEAN :
         IF err THEN /\ task' = [task EXCEPT ![k] = "ret"]
                     /\ outcome' = [outcome EXCEPT ![k] = "failed"]
         ELSE /\ task' = [task EXCEPT ![k] = "store"]
              /\ UNCHANGED outcome
    /\ UNCHANGED <<pageRange, numPages, isParallel, pageNumbers, pc, idx, sem,
                   wg, wrote, renderedPages, gi, genLog>>
    /\ UNCHANGED <<streamVars, auxVars>>

\* a store that writes the slot's index as the page number
StoreSlotZeroBased(k, dir) ==
    LET pageNum == pageNumbers[k]
    IN  /\ renderedPages' =
               [renderedPages EXCEPT ![SlotIndex(pageNum)] =
                   [pageNum |-> SlotIndex(pageNum),
                    filePath |-> RenderedPath(dir, pageNum)]]
        /\ wrote' = [wrote EXCEPT ![k] = @ \cup {SlotIndex(pageNum)}]
        /\ outcome' = [outcome EXCEPT ![k] = "ok"]

\* renderedPages[pageNum-1] = renderedPage{pageNum: pageNum, filePath: outputPath}
StoreSlot(k, dir) ==
    LET pageNum == pageNumbers[k]
    IN  /\ renderedPages' =
               [renderedPages EXCEPT ![SlotIndex(pageNum)] =
                   [pageNum |-> pageNum, filePath |-> RenderedPath(dir, pageNum)]]
        /\ wrote' = [wrote EXCEPT ![k] = @ \cup {SlotIndex(pageNum)}]
        /\ outcome' = [outcome EXCEPT ![k] = "ok"]

\* in the goroutine: the store into the result slot, then the return
TaskStore(k) ==
    /\ task[k] = "store"
    /\ StoreSlot(k, "outDir")
    /\ task' = [task EXCEPT ![k] = "ret"]
    /\ UNCHANGED <<pageRange, numPages, isParallel, pageNumbers, pc, idx, sem,
                   wg, gi, genLog>>
    /\ UNCHANGED <<streamVars, auxVars>>

\* a goroutine that gives its place in the gate back only after a
\* successful render
TaskReleaseLeak(k) ==
    /\ task[k] = "ret"
    /\ sem' = IF outcome[k] = "failed" THEN sem ELSE sem - 1
    /\ task' = [task EXCEPT ![k] = "released"]
    /\ UNCHANGED <<pageRange, numPages, isParallel, pageNumbers, pc, idx, wg,
                   outcome, wrote, renderedPages, gi, genLog>>
    /\ UNCHANGED <<streamVars, auxVars>>

\* defer func() { <-sem }(): runs first when the goroutine's body returns
TaskRelease(k) ==
    /\ task[k] = "ret"
    /\ sem' = sem - 1
    /\ task' = [task EXCEPT ![k] = "released"]
    /\ UNCHANGED <<pageRange, numPages, isParallel, pageNumbers, pc, idx, wg,
                   outcome, wrote, renderedPages, gi, genLog>>
    /\ UNCHANGED <<streamVars, auxVars>>

\* defer wg.Done(): runs last
TaskDone(k) ==
    /\ task[k] = "released"
    /\ wg' = wg - 1
    /\ task' = [task EXCEPT ![k] = "done"]
    /\ UNCHANGED <<pageRange, numPages, isParallel, pageNumbers, pc, idx, sem,
                   outcome, wrote, renderedPages, gi, genLog>>
    /\ UNCHANGED <<streamVars, auxVars>>


\* else branch: page, err := pdfReader.GetPage(pageNum)
SeqGetPage ==
    /\ pc = "loop"
    /\ idx <= Len(pageNumbers)
    /\ InRange(pageNumbers[idx])
    /\ ~UseGoroutine
    /\ \E err \in BOOLEAN :
         IF err THEN /\ outcome' = [outcome EXCEPT ![idx] = "failed"]
                     /\ task' = [task EXCEPT ![idx] = "done"]
                     /\ idx' = idx + 1
                     /\ UNCHANGED pc
         ELSE /\ task' = [task EXCEPT ![idx] = "seq_got"]
              /\ pc' = "seq_render"
              /\ UNCHANGED <<outcome, idx>>
    /\ UNCHANGED <<pageRange, numPages, isParallel, pageNumbers, sem, wg,
                   wrote, renderedPages, gi, genLog>>
    /\ UNCHANGED <<streamVars, auxVars>>

\* a sequential render whose failure leaves the loop (break for continue)
SeqRenderBreak ==
    /\ pc = "seq_render"
    /\ \E err \in BOOLEAN :
         IF err THEN /\ outcome' = [outcome EXCEPT ![idx] = "failed"]
                     /\ task' = [task EXCEPT ![idx] = "done"]
                     /\ idx' = Len(pageNumbers) + 1
                     /\ pc' = "loop"
         ELSE /\ task' = [task EXCEPT ![idx] = "seq_store"]
              /\ pc' = "seq_store"
              /\ UNCHANGED <<outcome, idx>>
    /\ UNCHANGED <<pageRange, numPages, isParallel, pageNumbers, sem, wg,
                   wrote, renderedPages, gi, genLog>>
    /\ UNCHANGED <<streamVars, auxVars>>

\* else branch: output, err := cli.RenderPdfPage(pageNum, page, outputDir)
SeqRender ==
    /\ pc = "seq_render"
    /\ \E err \in BOOLEAN :
         IF err THEN /\ outcome' = [outcome EXCEPT ![idx] = "failed"]
                     /\ task' = [task EXCEPT ![idx] = "done"]
                     /\ idx' = idx + 1
                     /\ pc' = "loop"
         ELSE /\ task' = [task EXCEPT ![idx] = "seq_store"]
              /\ pc' = "seq_store"
              /\ UNCHANGED <<outcome, idx>>
    /\ UNCHANGED <<pageRange, numPages, isParallel, pageNumbers, sem, wg,
                   wrote, renderedPages, gi, genLog>>
    /\ UNCHANGED <<streamVars, auxVars>>

\* else branch: the store into the result slot, then the next iteration
SeqStore ==
    /\ pc = "seq_store"
    /\ StoreSlot(idx, "outputDir")
    /\ task' = [task EXCEPT ![idx] = "done"]
    /\ idx' = idx + 1
    /\ pc' = "loop"
    /\ UNCHANGED <<pageRange, numPages, isParallel, pageNumbers, sem, wg, gi,
                   genLog>>
    /\ UNCHANGED <<streamVars, auxVars>>

\* a barrier that does not wait
WaitDoneAtOnce == TRUE

\* whether wg.Wait() returns: the WaitGroup counter is zero
WaitDone == wg = 0

\* wg.Wait()
WgWait ==
    /\ pc = "wait"
    /\ WaitDone
    /\ pc' = "newclient"
    /\ UNCHANGED <<pageRange, numPages, isParallel, pageNumbers, idx, sem, wg,
                   task, outcome, wrote, renderedPages, gi, genLog>>
    /\ UNCHANGED <<streamVars, auxVars>>

\* a constructor without the check of the credential
NewClientNeverFails(authBasic) == FALSE

\* uniai.NewClient's first check: if authBasic == "" { return nil, errors.New(...) }
NewClientFails(authBasic) == authBasic = <<>>

\* uniai.NewClient(os.Getenv("API_BASEURL"), nil, os.Getenv("API_AUTH"))
InitClient ==
    /\ pc = "newclient"
    /\ \E authBasic \in {<<>>, <<"k">>} :
         pc' = IF NewClientFails(authBasic) THEN "noclient" ELSE "orch"
    /\ gi' = 0
    /\ UNCHANGED <<pageRange, numPages, isParallel, pageNumbers, idx, sem, wg,
                   task, outcome, wrote, renderedPages, genLog>>
    /\ UNCHANGED <<streamVars, auxVars>>

\* `for _, page := range renderedPages` is exhausted: Run returns
OrchExit ==
    /\ pc = "orch"
    /\ gi >= numPages
    /\ pc' = "done"
    /\ UNCHANGED <<pageRange, numPages, isParallel, pageNumbers, idx, sem, wg,
                   task, outcome, wrote, renderedPages, gi, genLog>>
    /\ UNCHANGED <<streamVars, auxVars>>

\* os.ReadFile(path): the empty path never names a file; any read may fail
ReadFileOutcomes(path) == IF path = <<>> THEN {"err"} ELSE {"ok", "err"}

\* what the generation loop did with the slot it is at
Visit(end) == [slot |-> gi, pageNum |-> renderedPages[gi].pageNum, end |-> end]

\* fb, err := os.ReadFile(page.filePath); on success, with --write-response,
\* the response file (os.MkdirAll, os.Create), either of which may fail;
\* each failure is a `continue`
OrchRead ==
    /\ pc = "orch"
    /\ gi < numPages
    /\ \E r \in ReadFileOutcomes(renderedPages[gi].filePath), respFile \in {"none", "ok", "err"} :
         IF r = "err" THEN
             /\ respFile = "none"
             /\ genLog' = Append(genLog, Visit("read_failed"))
             /\ gi' = gi + 1
             /\ UNCHANGED pc
         ELSE IF respFile = "err" THEN
             /\ genLog' = Append(genLog, Visit("file_failed"))
             /\ gi' = gi + 1
             /\ UNCHANGED pc
         ELSE
             /\ pc' = "generate"
             /\ UNCHANGED <<gi, genLog>>
    /\ UNCHANGED <<pageRange, numPages, isParallel, pageNumbers, idx, sem, wg,
                   task, outcome, wrote, renderedPages>>
    /\ UNCHANGED <<streamVars, auxVars>>

\* a loop that ends at the first error of Generate
AfterGenerateAbort(err) == IF err THEN "done" ELSE "orch"

\* where the loop goes after Generate: `continue` on an error, the end of
\* the loop's body otherwise; both are the loop's head
AfterGenerate(err) == "orch"

\* a loop that calls Generate again for a page whose call failed
SlotAfterGenerateRetry(err) == IF err THEN gi ELSE gi + 1

\* the slot the loop is at after Generate: the next one, error or not
SlotAfterGenerate(err) == gi + 1

\* err = uniaiClient.Generate(ctx, &requestGen, funcResp); either way the
\* loop goes on to the next slot
OrchGenerate ==
    /\ pc = "generate"
    /\ \E err \in BOOLEAN :
         /\ genLog' = Append(genLog, Visit(IF err THEN "gen_failed" ELSE "generated"))
         /\ gi' = SlotAfterGenerate(err)
         /\ pc' = AfterGenerate(err)
    /\ UNCHANGED <<pageRange, numPages, isParallel, pageNumbers, idx, sem, wg,
                   task, outcome, wrote, renderedPages>>
    /\ UNCHANGED <<streamVars, auxVars>>

Next ==
    \/ ParseRange
    \/ OpenPdf
    \/ LoopExit
    \/ SkipOutOfRange
    \/ WgAdd
    \/ Acquire
    \/ Spawn
    \/ \E k \in Tasks : TaskGetPage(k)
    \/ \E k \in Tasks : TaskRender(k)
    \/ \E k \in Tasks : TaskStore(k)
    \/ \E k \in Tasks : TaskRelease(k)
    \/ \E k \in Tasks : TaskDone(k)
    \/ SeqGetPage
    \/ SeqRender
    \/ SeqStore
    \/ WgWait
    \/ InitClient
    \/ OrchExit
    \/ OrchRead
    \/ OrchGenerate

Spec == Init /\ [][Next]_vars


(***************************************************************************)
(* pkg/uniai: Client.stream, Generate, Chat                                *)
(***************************************************************************)
\* error values: nil, errors.New(msg), fmt.Errorf("unmarshal: %w", ..),
\* StatusError{StatusCode, Status, ErrorMessage}, json decode errors of the
\* event, the transport's error and the error a handler returned on line n
Nil == [kind |-> "nil", code |-> 0, status |-> "", msg |-> ""]

ErrorsNew(msg) == [kind |-> "errors.New", code |-> 0, status |-> "", msg |-> msg]

UnmarshalError == [kind |-> "unmarshal", code |-> 0, status |-> "", msg |-> ""]

DecodeError == [kind |-> "decode", code |-> 0, status |-> "", msg |-> ""]

TransportError == [kind |-> "transport", code |-> 0, status |-> "", msg |-> ""]

HandlerError(n) == [kind |-> "handler", code |-> n, status |-> "", msg |-> ""]

\* http.Response.Status of the status codes of the model
StatusLine(code) ==
    CASE code = 200 -> "200 OK"
      [] code = 399 -> "399"
      [] code = 400 -> "400 Bad Request"
      [] code = 500 -> "500 Internal Server Error"
      [] OTHER -> ""

\* StatusError{StatusCode: response.StatusCode, Status: response.Status,
\*             ErrorMessage: errorResponse.Error}
StatusError(code, msg) ==
    [kind |-> "StatusError", code |-> code, status |-> StatusLine(code), msg |-> msg]

StatusCodes == {200, 399, 400, 500}

ErrorTexts == {"quota exceeded", "model not found"}

\* A body line, by what the scanner and the decoders make of it: size, its
\* length in bytes without the line end; wf, whether it is JSON that
\* decodes into the probe struct {Error string}; error, the probe's Error
\* field; decodes, whether it decodes into the call's response type.
EventLine == [size |-> 64, wf |-> TRUE, error |-> "", decodes |-> TRUE]

ErrorLine(e) == [size |-> 64, wf |-> TRUE, error |-> e, decodes |-> TRUE]

MistypedLine == [size |-> 64, wf |-> TRUE, error |-> "", decodes |-> FALSE]

MalformedLine == [size |-> 64, wf |-> FALSE, error |-> "", decodes |-> FALSE]

\* an event whose response text makes the line n bytes long
LongEventLine(n) == [size |-> n, wf |-> TRUE, error |-> "", decodes |-> TRUE]

\* line lengths around the scanner's buffer size
LongSizes == {maxBufferSize - 1, maxBufferSize, maxBufferSize + 1}

Lines ==
    {EventLine, MistypedLine, MalformedLine}
    \cup {ErrorLine(e) : e \in ErrorTexts}
    \cup {LongEventLine(n) : n \in LongSizes}

Bodies == UNION {[1..n -> Lines] : n \in 0..MaxLines}

IdleRun ==
    /\ pageRange = <<>> /\ numPages = 0 /\ isParallel = FALSE
    /\ pageNumbers = <<>> /\ pc = "idle" /\ idx = 1 /\ sem = 0 /\ wg = 0
    /\ task = NoTasks /\ outcome = NoTasks /\ wrote = NoTasks
    /\ renderedPages = <<>> /\ gi = 0 /\ genLog = <<>>

\* One call of Generate or Chat against a service that answers with any
\* status and body of the model, or does not answer at all (status 0).
InitStream ==
    /\ IdleRun
    /\ IdleParse
    /\ IdleClient
    /\ api \in {"generate", "chat"}
    /\ status \in StatusCodes \cup {0}
    /\ body \in IF status = 0 THEN {<<>>} ELSE Bodies
    /\ spc = "do"
    /\ lineNo = 0
    /\ calls = <<>>
    /\ result = NotReturned

\* response, err := c.client.Do(request); if err != nil { return err }
Do ==
    /\ spc = "do"
    /\ IF status = 0
       THEN /\ spc' = "returned"
            /\ result' = TransportError
       ELSE /\ spc' = "scan"
            /\ UNCHANGED result
    /\ UNCHANGED <<api, status, body, lineNo, calls>>
    /\ UNCHANGED <<runVars, auxVars>>

\* a scan loop that stops one line early
ScanHasNextButLast == lineNo + 1 < Len(body)

\* whether scanner.Scan() has another line to deliver
ScanHasNext == lineNo < Len(body)

\* Whether the scanner can deliver a line of `size` bytes.  Its buffer is
\* scanBuf[0:cap(scanBuf)], maxBufferSize bytes, and is not grown past
\* maxBufferSize: when the buffer is full and holds no line end, Scan sets
\* ErrTooLong and returns false.
TokenFits(size) == size < maxBufferSize

\* for scanner.Scan() { ... }; return nil.  The loop ends when Scan returns
\* false, at the end of the body or on the scanner's error, which stream
\* never asks for (there is no scanner.Err() call).
Scan ==
    /\ spc = "scan"
    /\ IF ScanHasNext /\ TokenFits(body[lineNo + 1].size)
       THEN /\ lineNo' = lineNo + 1
            /\ spc' = "probe"
            /\ UNCHANGED result
       ELSE /\ spc' = "returned"
            /\ result' = Nil
            /\ UNCHANGED lineNo
    /\ UNCHANGED <<api, status, body, calls>>
    /\ UNCHANGED <<runVars, auxVars>>

\* a status check that lets 400 itself through
IsErrorStatusAbove(code) == code > StatusBadRequest

\* response.StatusCode >= http.StatusBadRequest
IsErrorStatus(code) == code >= StatusBadRequest

\* the checks with the HTTP status looked at before the Error field
ProbeResultStatusFirst(line, code) ==
    IF ~line.wf THEN UnmarshalError
    ELSE IF code >= StatusBadRequest THEN StatusError(code, line.error)
    ELSE IF line.error # "" THEN ErrorsNew(line.error)
    ELSE Nil

\* The checks on a scanned line before the callback: the probe's decode,
\* its Error field, then the HTTP status.  Nil: go on to fn(bts).
ProbeResult(line, code) ==
    IF ~line.wf THEN UnmarshalError
    ELSE IF line.error # "" THEN ErrorsNew(line.error)
    ELSE IF IsErrorStatus(code) THEN StatusError(code, line.error)
    ELSE Nil

Probe ==
    /\ spc = "probe"
    /\ LET err == ProbeResult(body[lineNo], status)
       IN  IF err # Nil
           THEN /\ spc' = "returned"
                /\ result' = err
           ELSE /\ spc' = "fn"
                /\ UNCHANGED result
    /\ UNCHANGED <<api, status, body, lineNo, calls>>
    /\ UNCHANGED <<runVars, auxVars>>

\* a loop that drops the callback's error and reads on
AbortOnFnErrNever(err) == FALSE

\* if err := fn(bts); err != nil { return err }
AbortOnFnErr(err) == err # Nil

\* fn(bts): the closure of Generate / Chat decodes the line into its
\* response type, returns the decode error, or else invokes the caller's
\* handler, which returns nil or an error of its own
Fn ==
    /\ spc = "fn"
    /\ \E ret \in {Nil, HandlerError(lineNo)} :
         LET invoked == body[lineNo].decodes
             err     == IF invoked THEN ret ELSE DecodeError
         IN  /\ ~invoked => ret = Nil
             /\ calls' = IF invoked
                         THEN Append(calls, [line |-> lineNo, ret |-> ret])
                         ELSE calls
             /\ IF AbortOnFnErr(err)
                THEN /\ spc' = "returned"
                     /\ result' = err
                ELSE /\ spc' = "scan"
                     /\ UNCHANGED result
    /\ UNCHANGED <<api, status, body, lineNo>>
    /\ UNCHANGED <<runVars, auxVars>>

NextStream ==
    \/ Do
    \/ Scan
    \/ Probe
    \/ Fn

SpecStream == InitStream /\ [][NextStream]_vars


(***************************************************************************)
(* Properties of the page scheduler (specification Spec)                   *)
(***************************************************************************)
\* positions of the command after wg.Wait() has returned
AfterWait == {"newclient", "noclient", "orch", "generate", "done"}

\* renders dispatched whose gate slot is not yet given back
InFlight == {k \in Tasks : task[k] \in {"run", "got", "store", "ret"}}

\* renders executing GetPage, RenderPdfPage or the store
Rendering == {k \in Tasks : task[k] \in {"run", "got", "store", "seq_got", "seq_store"}}

\* renders that were dispatched
Dispatched == {k \in Tasks : task[k] # "new"}

\* selector positions whose page number lies in [1, numPages]
InRangeTasks == {k \in Tasks : pageNumbers[k] >= 1 /\ pageNumbers[k] <= numPages}

NonEmptySlots == {i \in DOMAIN renderedPages : renderedPages[i] # EmptySlot}

\* C1: in parallel mode the renders that were dispatched and have not yet
\* completed never outnumber the gate's capacity, and the gate holds exactly
\* the slots of those renders (plus the slot the dispatcher has just
\* acquired for the render it is about to start): a render that completed,
\* with or without an error, holds none.
C1_GateBound ==
    isParallel =>
        /\ Cardinality(InFlight) <= SemCap
        /\ sem = Cardinality(InFlight) + (IF pc = "spawn" THEN 1 ELSE 0)

\* C1 witness: the gate was full, a failed render gave its slot back, and
\* the dispatcher used it to start a fourth render, which fills the gate again.
C1_Witness ==
    /\ isParallel
    /\ Cardinality(Dispatched) > SemCap
    /\ Cardinality(InFlight) = SemCap
    /\ \E k \in Tasks : task[k] \in {"released", "done"} /\ outcome[k] = "failed"

\* C2: while any dispatched render has not signalled completion the command
\* is not past wg.Wait(), so the generation loop has read no slot and issued
\* no Generate call.
C2_JoinBarrier ==
    (\E k \in Tasks : task[k] \notin {"new", "done"}) =>
        /\ pc \notin AfterWait
        /\ gi = 0
        /\ genLog = <<>>

\* C2 witness: parallel mode, past the barrier and about to call Generate,
\* after one render failed and another succeeded.
C2_Witness ==
    /\ isParallel
    /\ pc = "generate"
    /\ \E j, k \in Tasks : outcome[j] = "failed" /\ outcome[k] = "ok"

\* C3: every render writes at most one slot, index pageNumber-1 of its own
\* page, and no two renders that run at the same time write or are about to
\* write the same index.
C3_DisjointSlots ==
    /\ \A k \in Tasks : wrote[k] \subseteq {pageNumbers[k] - 1}
    /\ \A j, k \in Tasks :
         j # k =>
            /\ wrote[j] \cap wrote[k] = {}
            /\ (j \in Rendering /\ k \in Rendering) => pageNumbers[j] # pageNumbers[k]

\* C3 witness: two goroutines are at their store at the same time and a
\* third has already written its slot.
C3_Witness ==
    /\ isParallel
    /\ \E j, k \in Tasks : j # k /\ task[j] = "store" /\ task[k] = "store"
    /\ \E h \in Tasks : wrote[h] # {}

\* C4: a page number outside [1, numPages] is never dispatched and does not
\* end the batch; once the scheduler has returned every in-range page of
\* the selector was rendered, and the non-empty slots are exactly those of
\* the in-range pages whose render succeeded.
C4_OutOfRangeSkipped ==
    /\ \A k \in Tasks \ InRangeTasks : task[k] = "new" /\ wrote[k] = {}
    /\ (\E k \in Tasks : outcome[k] = "skipped") => pc \notin {"return", "panic"}
    /\ pc \in AfterWait =>
         /\ \A k \in InRangeTasks : task[k] = "done"
         /\ NonEmptySlots = {pageNumbers[k] - 1 : k \in {h \in InRangeTasks : outcome[h] = "ok"}}

\* C4 witness: three pages, selector 0..4: pages 0 and 4 were skipped, the
\* scheduler has returned and exactly slots 0 and 2 are filled.
C4_Witness ==
    /\ pc \in AfterWait
    /\ numPages = 3
    /\ pageNumbers = <<0, 1, 2, 3, 4>>
    /\ NonEmptySlots = {0, 2}

\* C5: a failed render leaves its page's slot empty and writes nothing, it
\* does not end the command, and once the scheduler has returned every
\* other in-range page was rendered and, where the render succeeded,
\* recorded in its slot.
C5_FailureIsolated ==
    /\ \A k \in Tasks :
         outcome[k] = "failed" =>
            /\ wrote[k] = {}
            /\ renderedPages[pageNumbers[k] - 1] = EmptySlot
    /\ (\E k \in Tasks : outcome[k] = "failed") => pc \notin {"return", "panic"}
    /\ pc \in AfterWait =>
         \A k \in InRangeTasks :
            /\ outcome[k] \in {"ok", "failed"}
            /\ outcome[k] = "ok" =>
                  /\ renderedPages[pageNumbers[k] - 1].pageNum = pageNumbers[k]
                  /\ renderedPages[pageNumbers[k] - 1].filePath # <<>>

\* C5 witness: sequential mode, the first page failed and a later one was
\* rendered and recorded.
C5_Witness ==
    /\ ~isParallel
    /\ pc \in AfterWait
    /\ \E j, k \in Tasks : j < k /\ outcome[j] = "failed" /\ outcome[k] = "ok"

\* C6: without --parallel at most one render runs at a time, and a render
\* has started only if every earlier page of the selector was skipped or
\* has finished its render; no goroutine, gate slot or WaitGroup count is
\* in use.
C6_Sequential ==
    ~isParallel =>
        /\ Cardinality(Rendering) <= 1
        /\ \A k \in Dispatched :
             \A j \in 1..(k - 1) : task[j] = "done" \/ outcome[j] = "skipped"
        /\ \A k \in Rendering : \A j \in Tasks : j > k => task[j] = "new" /\ outcome[j] = "none"
        /\ sem = 0 /\ wg = 0

\* C6 witness: sequential mode, the third page is being rendered after the
\* first failed and the second succeeded.
C6_Witness ==
    /\ ~isParallel
    /\ 3 \in Tasks
    /\ task[3] = "seq_store"
    /\ outcome[1] = "failed"
    /\ outcome[2] = "ok"


(***************************************************************************)
(* Properties of a streaming call (specification SpecStream)               *)
(***************************************************************************)
\* the service answered
Responded == status # 0

\* line k fits the scanner's buffer and is well-formed JSON without an
\* error text that decodes into the call's response type
GoodLine(k) ==
    /\ body[k].size < maxBufferSize
    /\ body[k].wf /\ body[k].error = "" /\ body[k].decodes

\* the line numbers the handler was invoked with, in order of invocation
CallLines == [i \in 1..Len(calls) |-> calls[i].line]

\* no invocation of the handler returned an error
HandlerAccepted == \A i \in 1..Len(calls) : calls[i].ret = Nil

\* C7: for a response with status < 400 whose lines are all well-formed
\* events without an error text, and a handler that returns no error, the
\* handler is invoked once per line in the order of the lines (at every
\* moment: for lines 1..m, m the number of invocations so far), and the
\* call returns nil after exactly n invocations.
C7_HandlerPerLine ==
    (/\ Responded
     /\ status < StatusBadRequest
     /\ \A k \in 1..Len(body) : GoodLine(k)
     /\ HandlerAccepted) =>
        /\ CallLines = [i \in 1..Len(calls) |-> i]
        /\ Len(calls) <= lineNo
        /\ spc = "returned" => result = Nil /\ Len(calls) = Len(body)

\* C7 witness: a Generate call on a three-line body, status 200, returned
\* nil after three invocations.
C7_Witness ==
    /\ api = "generate"
    /\ spc = "returned"
    /\ status = 200
    /\ Len(body) = 3
    /\ \A k \in 1..Len(body) : GoodLine(k)
    /\ Len(calls) = 3
    /\ result = Nil

\* line k carries an error text and every line before it is a well-formed
\* event without one
FirstErrorLine(k) ==
    /\ k \in 1..Len(body)
    /\ body[k].size < maxBufferSize
    /\ body[k].wf /\ body[k].error # ""
    /\ \A j \in 1..(k - 1) : GoodLine(j)

\* what C8 promises of a returned call for an error on line k
ErrorLineOutcome(k) ==
    /\ result = ErrorsNew(body[k].error)
    /\ CallLines = [i \in 1..(k - 1) |-> i]
    /\ lineNo = k

\* C8 as stated: whatever the HTTP status, when line k carries an error
\* text (the lines before it being well-formed events the handler accepts)
\* the call returns that text as its error and the handler was invoked
\* exactly for lines 1..k-1.
C8_AsStated ==
    (spc = "returned" /\ Responded /\ HandlerAccepted) =>
        \A k \in 1..Len(body) : FirstErrorLine(k) => ErrorLineOutcome(k)

\* C8 amended: the same for k = 1 whatever the HTTP status, and for k > 1
\* when the status is < 400 (with a status >= 400 the call ends on line 1).
C8_ErrorLineAborts ==
    (spc = "returned" /\ Responded /\ HandlerAccepted) =>
        \A k \in 1..Len(body) :
            (FirstErrorLine(k) /\ (k = 1 \/ status < StatusBadRequest)) =>
                ErrorLineOutcome(k)

\* C8 witness: status 200, the second of three lines is
\* {"error": "quota exceeded"}: one invocation, then that error.
C8_Witness ==
    /\ spc = "returned"
    /\ status = 200
    /\ Len(body) = 3
    /\ FirstErrorLine(2)
    /\ body[2].error = "quota exceeded"
    /\ Len(calls) = 1
    /\ result = ErrorsNew("quota exceeded")

\* C9: an invocation of the handler that returned an error is the last
\* one, the call has returned exactly that error, and no line after the
\* one the handler was invoked with has been read.
C9_HandlerErrorAborts ==
    \A i \in 1..Len(calls) :
        calls[i].ret # Nil =>
            /\ i = Len(calls)
            /\ spc = "returned"
            /\ result = calls[i].ret
            /\ lineNo = calls[i].line

\* C9 witness: the handler returned an error on the second line of a
\* three-line body; the third line is never read.
C9_Witness ==
    /\ spc = "returned"
    /\ Len(body) = 3
    /\ Len(calls) = 2
    /\ calls[2].ret = HandlerError(2)
    /\ result = HandlerError(2)
    /\ lineNo = 2

\* the first body line fits the buffer, is JSON the probe decodes and its error field is
\* absent or empty
FirstLineNoError ==
    /\ Len(body) >= 1
    /\ body[1].size < maxBufferSize
    /\ body[1].wf /\ body[1].error = ""

\* C10: with a status >= 400 and a first line without an error text, the
\* handler is never invoked, and the call returns on that first line a
\* StatusError with the response's status code and status text and an
\* empty message.
C10_StatusErrorOnFirstLine ==
    (Responded /\ status >= StatusBadRequest /\ FirstLineNoError) =>
        /\ calls = <<>>
        /\ lineNo <= 1
        /\ spc = "returned" =>
              /\ lineNo = 1
              /\ result.kind = "StatusError"
              /\ result.code = status
              /\ result.status = StatusLine(status)
              /\ result.msg = ""

\* C10 witness: status 400, two well-formed event lines: returned with the
\* StatusError after the first.
C10_Witness ==
    /\ spc = "returned"
    /\ status = 400
    /\ Len(body) = 2
    /\ GoodLine(1) /\ GoodLine(2)
    /\ result.kind = "StatusError"
    /\ result.status = "400 Bad Request"


\* C11 as stated: a streaming call answered with a status >= 400 returns a
\* non-nil error, whatever the body.
C11_AsStated ==
    (spc = "returned" /\ Responded /\ status >= StatusBadRequest) => result # Nil

\* the first k-1 lines are events the scanner delivers and the handler accepts
ReachesLine(k) ==
    /\ k \in 1..Len(body)
    /\ \A j \in 1..(k - 1) : GoodLine(j)
    /\ HandlerAccepted

\* C12 as stated: with a status < 400, a line longer than the ceiling of
\* 512,000 bytes (the lines before it being events the handler accepts)
\* makes the call return a non-nil error instead of success.
C12_AsStated ==
    (spc = "returned" /\ Responded /\ status < StatusBadRequest) =>
        \A k \in 1..Len(body) :
            (ReachesLine(k) /\ body[k].size > maxBufferSize) => result # Nil


(***************************************************************************)
(* One call of cli.ParsePageRange (specification SpecParse)                *)
(***************************************************************************)
InitParse ==
    /\ pageRange \in ParseInputs
    /\ numPages = 0 /\ isParallel = FALSE
    /\ pageNumbers = <<>> /\ pc = "cli" /\ idx = 1 /\ sem = 0 /\ wg = 0
    /\ task = NoTasks /\ outcome = NoTasks /\ wrote = NoTasks
    /\ renderedPages = <<>> /\ gi = 0 /\ genLog = <<>>
    /\ IdleStream
    /\ IdleParse
    /\ IdleClient

\* pageNumbers, err = cli.ParsePageRange(pageRange)
CallParsePageRange ==
    /\ pc = "cli"
    /\ LET r == ParsePageRange(pageRange)
       IN  /\ parsed' = r
           /\ pageNumbers' = r.pages
    /\ pc' = "parsed"
    /\ UNCHANGED <<pageRange, numPages, isParallel, idx, sem, wg, task,
                   outcome, wrote, renderedPages, gi, genLog>>
    /\ UNCHANGED <<streamVars, clientVars>>

NextParse == CallParsePageRange

SpecParse == InitParse /\ [][NextParse]_vars

\* a decimal integer as strconv.Atoi reads one, without a minus sign
IsInteger(s) == ~Contains(s, "-") /\ Atoi(s).ok

\* "a-b": two integers around the one dash of the expression
IsDashExpr(s) ==
    /\ Contains(s, "-") /\ ~Contains(s, ",")
    /\ Len(Split(s, "-")) = 2
    /\ IsInteger(Split(s, "-")[1]) /\ IsInteger(Split(s, "-")[2])

\* "a,b,c": integers separated by commas
IsCommaExpr(s) ==
    /\ Contains(s, ",") /\ ~Contains(s, "-")
    /\ \A i \in 1..Len(Split(s, ",")) : IsInteger(Split(s, ",")[i])

\* C13: for a dash expression "a-b" with a <= b the call returns, without
\* an error, the b-a+1 numbers a, a+1, .., b in this order.
C13_DashRange ==
    (pc = "parsed" /\ IsDashExpr(pageRange)) =>
        LET a == Atoi(Split(pageRange, "-")[1]).val
            b == Atoi(Split(pageRange, "-")[2]).val
        IN  a <= b =>
               /\ parsed.kind = "ok"
               /\ Len(parsed.pages) = b - a + 1
               /\ \A i \in 1..Len(parsed.pages) : parsed.pages[i] = a + i - 1

\* C13 witness: "2-13" was parsed into the twelve numbers 2..13.
C13_Witness ==
    /\ pc = "parsed"
    /\ pageRange = <<"2", "-", "1", "3">>
    /\ parsed.kind = "ok"
    /\ Len(parsed.pages) = 12
    /\ parsed.pages[1] = 2 /\ parsed.pages[12] = 13

\* C14 as stated: for a comma expression of integers the call returns,
\* without an error or a panic, the integers in the given order.
C14_AsStated ==
    (pc = "parsed" /\ IsCommaExpr(pageRange)) =>
        LET toks == Split(pageRange, ",")
        IN  /\ parsed.kind = "ok"
            /\ parsed.pages = [i \in 1..Len(toks) |-> Atoi(toks[i]).val]

\* a non-empty expression that is neither an integer, a dash expression of
\* two integers nor a comma expression of integers
Malformed(s) ==
    /\ s # <<>>
    /\ ~IsInteger(s) /\ ~IsDashExpr(s) /\ ~IsCommaExpr(s)

\* C15 as stated: for a malformed non-empty expression the call returns a
\* parse error: it neither panics nor returns without an error.
C15_AsStated ==
    (pc = "parsed" /\ Malformed(pageRange)) => parsed.kind = "err"


(***************************************************************************)
(* pkg/uniai: NewClient, Client.do, Heartbeat, Version                     *)
(* (specification SpecClient: a client is made and used for requests)      *)
(***************************************************************************)
\* Most requests one client is used for.
MaxRequests == 2

\* const API_BASEURL = ""
API_BASEURL == <<>>

\* the byte of a character of the credentials of the model
Ascii(c) ==
    CASE c = "a" -> 97
      [] c = "b" -> 98
      [] c = "p" -> 112
      [] c = "u" -> 117
      [] c = ":" -> 58

\* the alphabet of base64.StdEncoding
B64Chars ==
    <<"A", "B", "C", "D", "E", "F", "G", "H", "I", "J", "K", "L", "M",
      "N", "O", "P", "Q", "R", "S", "T", "U", "V", "W", "X", "Y", "Z",
      "a", "b", "c", "d", "e", "f", "g", "h", "i", "j", "k", "l", "m",
      "n", "o", "p", "q", "r", "s", "t", "u", "v", "w", "x", "y", "z",
      "0", "1", "2", "3", "4", "5", "6", "7", "8", "9", "+", "/">>

\* the four characters that encode the 24 bits of three bytes
B64Quad(b1, b2, b3) ==
    LET n == b1 * 65536 + b2 * 256 + b3
    IN  <<B64Chars[(n \div 262144) + 1],
          B64Chars[((n \div 4096) % 64) + 1],
          B64Chars[((n \div 64) % 64) + 1],
          B64Chars[(n % 64) + 1]>>

\* base64.StdEncoding.EncodeToString([]byte(s)), with "=" padding
RECURSIVE Base64(_)
Base64(s) ==
    IF Len(s) = 0 THEN <<>>
    ELSE IF Len(s) = 1
         THEN LET q == B64Quad(Ascii(s[1]), 0, 0) IN <<q[1], q[2], "=", "=">>
    ELSE IF Len(s) = 2
         THEN LET q == B64Quad(Ascii(s[1]), Ascii(s[2]), 0) IN <<q[1], q[2], q[3], "=">>
    ELSE B64Quad(Ascii(s[1]), Ascii(s[2]), Ascii(s[3])) \o Base64(SubSeq(s, 4, Len(s)))

\* nc.baseURL: url.Parse(API_BASEURL) for an empty argument, else url.Parse(baseURL)
ResolveBaseURL(baseURL) == IF baseURL = <<>> THEN API_BASEURL ELSE baseURL

\* NewClient(baseURL, httpClient, authBasic): the error and the client
NewClient(baseURL, authBasic) ==
    IF NewClientFails(authBasic)
    THEN [err |-> ErrorsNew("authBasic cannot be empty"), client |-> NilClient]
    ELSE [err |-> Nil,
          client |-> [isNil |-> FALSE,
                      baseURL |-> ResolveBaseURL(baseURL),
                      authBasic |-> Base64(authBasic)]]

\* the arguments NewClient is called with
NewClientArgs ==
    [baseURL : {<<>>, <<"h">>},
     authBasic : {<<>>, <<"a">>, <<"a", "b">>, <<"u", ":", "p">>}]

\* a response body as Client.do sees it: len, its length; isJSON, whether
\* json.Unmarshal accepts it; version and error, its fields of these names
EmptyBody == [len |-> 0, isJSON |-> FALSE, version |-> "", error |-> ""]

VersionBody == [len |-> 19, isJSON |-> TRUE, version |-> "0.5.1", error |-> ""]

ErrorBody == [len |-> 24, isJSON |-> TRUE, version |-> "", error |-> "unauthorized"]

GarbageBody == [len |-> 9, isJSON |-> FALSE, version |-> "", error |-> ""]

\* the bodies a call may be answered with: none to HEAD
DoBodies(op) ==
    IF op = "heartbeat" THEN {EmptyBody}
    ELSE {EmptyBody, VersionBody, ErrorBody, GarbageBody}

\* the request do and stream build: method, path, Accept and Authorization
Request(c, method, path, accept) ==
    [method |-> method, path |-> path, accept |-> accept,
     auth |-> IF c.authBasic # <<>> THEN <<"Basic ">> \o c.authBasic ELSE <<>>]

InitClientSpec ==
    /\ IdleRun
    /\ IdleParse
    /\ api = "none" /\ status = 0 /\ body = <<>> /\ spc = "new"
    /\ lineNo = 0 /\ calls = <<>> /\ result = NotReturned
    /\ IdleClient

\* c, err := NewClient(baseURL, nil, authBasic)
NewClientCall ==
    /\ spc = "new"
    /\ \E a \in NewClientArgs :
         LET r == NewClient(a.baseURL, a.authBasic)
         IN  /\ args' = a
             /\ client' = r.client
             /\ spc' = IF r.err # Nil THEN "noclient" ELSE "ready"
    /\ UNCHANGED <<api, status, body, lineNo, calls, result, sent, target, reads>>
    /\ UNCHANGED <<runVars, parseVars>>

\* the client is between calls and may be used for another request
CanRequest == spc \in {"ready", "returned"} /\ Len(sent) < MaxRequests

\* Heartbeat: c.do(ctx, HEAD, "/", nil, nil); Version: c.do(ctx, GET,
\* "/api/version", nil, &version): do up to c.client.Do(request), and the
\* service's answer
SendDo ==
    /\ CanRequest
    /\ \E op \in {"heartbeat", "version"} :
         /\ api' = op
         /\ sent' = Append(sent,
                IF op = "heartbeat"
                THEN Request(client, "HEAD", "/", "application/json")
                ELSE Request(client, "GET", "/api/version", "application/json"))
         /\ status' \in StatusCodes \cup {0}
         /\ body' \in IF status' = 0 THEN {EmptyBody} ELSE DoBodies(op)
    /\ target' = Undecoded
    /\ reads' = 0
    /\ lineNo' = 0
    /\ calls' = <<>>
    /\ result' = NotReturned
    /\ spc' = "await"
    /\ UNCHANGED <<args, client>>
    /\ UNCHANGED <<runVars, parseVars>>

\* a checkError that lets every status pass
CheckErrorNever(code, b) == Nil

\* checkError(resp, body): nil below 400, else StatusError{StatusCode} with
\* the body's error field, or the whole body when it is no JSON
CheckError(code, b) ==
    IF code < StatusBadRequest THEN Nil
    ELSE [kind |-> "StatusError", code |-> code, status |-> "",
          msg |-> IF b.isJSON THEN b.error ELSE "body"]

\* the rest of do: io.ReadAll, checkError, and json.Unmarshal into respData
\* if len(respBody) > 0 && respData != nil
FinishDo ==
    /\ spc = "await"
    /\ IF status = 0 THEN
           /\ result' = TransportError
           /\ UNCHANGED <<reads, target>>
       ELSE
           /\ reads' = reads + 1
           /\ LET err == CheckError(status, body)
                  hasTarget == api = "version"
              IN  IF err # Nil THEN
                      /\ result' = err
                      /\ UNCHANGED target
                  ELSE IF body.len > 0 /\ hasTarget THEN
                      IF body.isJSON
                      THEN /\ target' = [decoded |-> TRUE, version |-> body.version]
                           /\ result' = Nil
                      ELSE /\ result' = DecodeError
                           /\ UNCHANGED target
                  ELSE
                      /\ result' = Nil
                      /\ UNCHANGED target
    /\ spc' = "returned"
    /\ UNCHANGED <<api, status, body, lineNo, calls, args, client, sent>>
    /\ UNCHANGED <<runVars, parseVars>>

\* Generate / Chat: stream up to c.client.Do(request), and the service's
\* answer (bodies of at most one line)
SendStream ==
    /\ CanRequest
    /\ \E op \in {"generate", "chat"} :
         /\ api' = op
         /\ sent' = Append(sent,
                Request(client, "POST",
                        IF op = "generate" THEN "/api/generate" ELSE "/api/chat",
                        "application/x-ndjson"))
    /\ status' \in StatusCodes \cup {0}
    /\ body' \in IF status' = 0 THEN {<<>>} ELSE {b \in Bodies : Len(b) <= 1}
    /\ target' = Undecoded
    /\ reads' = 0
    /\ lineNo' = 0
    /\ calls' = <<>>
    /\ result' = NotReturned
    /\ spc' = "do"
    /\ UNCHANGED <<args, client>>
    /\ UNCHANGED <<runVars, parseVars>>

NextClient ==
    \/ NewClientCall
    \/ SendDo
    \/ FinishDo
    \/ SendStream
    \/ Do
    \/ Scan
    \/ Probe
    \/ Fn

SpecClient == InitClientSpec /\ [][NextClient]_vars

\* base64 of the credentials of the model, as the standard encoding gives it
KnownBase64(authBasic) ==
    CASE authBasic = <<"a">> -> <<"Y", "Q", "=", "=">>
      [] authBasic = <<"a", "b">> -> <<"Y", "W", "I", "=">>
      [] authBasic = <<"u", ":", "p">> -> <<"d", "T", "p", "w">>
      [] OTHER -> <<>>

\* C16: NewClient with an empty credential returns no client, and no request
\* is ever sent; with a non-empty credential it returns a client whose
\* authBasic is the base64 of the credential, which stays so through every
\* request, each of which carries it as "Basic <authBasic>".
C16_NewClient ==
    spc # "new" =>
        IF args.authBasic = <<>>
        THEN /\ client = NilClient
             /\ spc = "noclient"
             /\ sent = <<>>
        ELSE /\ ~client.isNil
             /\ client.authBasic = KnownBase64(args.authBasic)
             /\ \A i \in 1..Len(sent) :
                   sent[i].auth = <<"Basic ">> \o KnownBase64(args.authBasic)

\* C16 witness: a client made with "u:p" has sent two requests, a Version
\* and a Generate call, both with "Basic dTpw".
C16_Witness ==
    /\ spc = "returned"
    /\ args.authBasic = <<"u", ":", "p">>
    /\ Len(sent) = 2
    /\ sent[1].path = "/api/version"
    /\ sent[2].path = "/api/generate"
    /\ sent[2].auth = <<"Basic ", "d", "T", "p", "w">>

\* C17: a Heartbeat or Version call that got an answer has read the body
\* once; with a status >= 400 it returns a StatusError of that status and
\* has decoded nothing; with a status < 400 it has decoded the body into
\* the target exactly if the body is non-empty (and is JSON) and a target
\* was given, and returns nil on an empty body without decoding.
C17_DoDecodesOnce ==
    (spc = "returned" /\ api \in {"heartbeat", "version"} /\ status # 0) =>
        /\ reads = 1
        /\ status >= StatusBadRequest =>
              /\ result.kind = "StatusError"
              /\ result.code = status
              /\ target = Undecoded
        /\ status < StatusBadRequest =>
              /\ target.decoded <=> (body.len > 0 /\ api = "version" /\ body.isJSON)
              /\ target.decoded => target.version = body.version /\ result = Nil
              /\ body.len = 0 => result = Nil
              /\ result # Nil => (body.len > 0 /\ ~body.isJSON)

\* C17 witness: Version answered 200 with {"version":"0.5.1"}: decoded.
C17_Witness ==
    /\ spc = "returned"
    /\ api = "version"
    /\ status = 200
    /\ body = VersionBody
    /\ target = [decoded |-> TRUE, version |-> "0.5.1"]
    /\ result = Nil


(***************************************************************************)
(* Properties of the generation loop and of the result slots               *)
(***************************************************************************)
\* C18: a failed read of a page's file, a failed response file or an error
\* of Generate ends that slot's turn only: the loop has dealt with every
\* slot before the one it is at, in order, and ends only after it has dealt
\* with all numPages slots.
C18_PerPageErrorsContinue ==
    /\ \A i \in 1..Len(genLog) : genLog[i].slot = i - 1
    /\ pc = "orch" => Len(genLog) = gi /\ gi <= numPages
    /\ pc = "generate" => Len(genLog) = gi /\ gi < numPages
    /\ pc = "done" => Len(genLog) = numPages /\ gi = numPages

\* C18 witness: Generate failed for page 1, the read of page 2's rendered
\* file failed, and page 3 was still generated before the loop ended.
C18_Witness ==
    /\ pc = "done"
    /\ Len(genLog) >= 3
    /\ genLog[1].end = "gen_failed"
    /\ genLog[2].end = "read_failed" /\ renderedPages[1] # EmptySlot
    /\ genLog[3].end = "generated"

\* the directory the render of this run writes to
RenderDir == IF isParallel THEN "outDir" ELSE "outputDir"

\* renderedPages exists: make([]renderedPage, numPages) has run
SlotsMade == pc \notin {"parse", "open", "return", "panic"}

SlotsWellFormed ==
    SlotsMade =>
        /\ DOMAIN renderedPages = 0..(numPages - 1)
        /\ \A k \in 0..(numPages - 1) :
              renderedPages[k] # EmptySlot =>
                  /\ renderedPages[k].pageNum = k + 1
                  /\ renderedPages[k].filePath = RenderedPath(RenderDir, k + 1)
                  /\ \E t \in Tasks : pageNumbers[t] = k + 1 /\ outcome[t] = "ok"

SlotsNotReset ==
    \A k \in DOMAIN renderedPages :
        renderedPages[k] # EmptySlot =>
            k \in DOMAIN renderedPages' /\ renderedPages'[k] # EmptySlot

\* C19: once made, the result slots are numPages in number in every state;
\* a non-empty slot k holds page number k+1 and the path a successful render
\* of page k+1 returned; and no step empties a non-empty slot.
C19_SlotsKeepResults == [](SlotsWellFormed) /\ [][SlotsNotReset]_vars

\* C19 witness: a parallel run has ended with slots 0 and 2 filled and
\* slot 1 empty.
C19_Witness ==
    /\ pc = "done"
    /\ isParallel
    /\ numPages >= 3
    /\ renderedPages[0] # EmptySlot
    /\ renderedPages[1] = EmptySlot
    /\ renderedPages[2] = [pageNum |-> 3, filePath |-> RenderedPath("outDir", 3)]

IsCall(e) == e.end \in {"gen_failed", "generated"}

\* the Generate calls issued so far, in order
GenerateCalls == SelectSeq(genLog, IsCall)

\* C20: the Generate calls are issued in strictly ascending order of page
\* number, so at most once per page, error or not, and each for a page
\* whose slot is not empty; so is the call the loop is about to issue.
C20_AscendingCalls ==
    LET c == GenerateCalls
    IN  /\ \A i, j \in 1..Len(c) : i < j => c[i].pageNum < c[j].pageNum
        /\ \A i \in 1..Len(c) :
              /\ renderedPages[c[i].slot] # EmptySlot
              /\ renderedPages[c[i].slot].pageNum = c[i].pageNum
        /\ pc = "generate" =>
              /\ renderedPages[gi] # EmptySlot
              /\ \A i \in 1..Len(c) : c[i].pageNum < renderedPages[gi].pageNum

\* C20 witness: a parallel run has ended with exactly two calls, for page 1,
\* which failed, and then for page 3; page 2's slot is empty.
C20_Witness ==
    /\ pc = "done"
    /\ isParallel
    /\ Len(GenerateCalls) = 2
    /\ GenerateCalls[1].pageNum = 1 /\ GenerateCalls[1].end = "gen_failed"
    /\ GenerateCalls[2].pageNum = 3
    /\ renderedPages[1] = EmptySlot


(***************************************************************************)
(* The parallel scheduler under fair scheduling                            *)
(* (specification SpecFair: a --parallel run up to and past wg.Wait())     *)
(***************************************************************************)
\* the selectors of the fair runs: none (all pages), and one that names
\* page 0 and every page up to MaxPages, so that some are out of range
FairInputs == {<<>>, <<"0", "-", DigitChar(MaxPages)>>}

InitFair == Init /\ isParallel /\ pageRange \in FairInputs

NextFair ==
    \/ ParseRange
    \/ OpenPdf
    \/ LoopExit
    \/ SkipOutOfRange
    \/ WgAdd
    \/ Acquire
    \/ Spawn
    \/ \E k \in Tasks : TaskGetPage(k)
    \/ \E k \in Tasks : TaskRender(k)
    \/ \E k \in Tasks : TaskStore(k)
    \/ \E k \in Tasks : TaskRelease(k)
    \/ \E k \in Tasks : TaskDone(k)
    \/ WgWait

\* the Go scheduler runs some runnable goroutine, and every call a render
\* task makes returns: a step that can be taken is taken
SpecFair == InitFair /\ [][NextFair]_vars /\ WF_vars(NextFair)

\* C21: in a parallel run, under fair scheduling, the dispatcher that waits
\* for a place in the gate gets it, the render loop, once entered, is
\* followed by the passing of wg.Wait(), and past wg.Wait() the gate holds
\* no place.
C21_BarrierPassed ==
    /\ (pc = "acquire") ~> (pc = "spawn")
    /\ (pc = "loop") ~> (pc = "newclient")
    /\ [](pc \in AfterWait => sem = 0)

\* C21 witness: the barrier is passed after more renders than the gate has
\* places were dispatched, one of which failed.
C21_Witness ==
    /\ pc = "newclient"
    /\ isParallel
    /\ Cardinality(Dispatched) > SemCap
    /\ \E k \in Tasks : outcome[k] = "failed"
    /\ sem = 0 /\ wg = 0


(***************************************************************************)
(* Page-range expressions at the edges                                     *)
(***************************************************************************)
\* "a-b" with integers a > b
IsDescendingDash(s) ==
    /\ IsDashExpr(s)
    /\ Atoi(Split(s, "-")[1]).val > Atoi(Split(s, "-")[2]).val

\* C22: for "a-b" with a > b ParsePageRange returns the empty sequence and
\* no error; the command goes on with an empty selection up to the opening
\* of the document and, from then on, with all pages 1..numPages, as it
\* does when no selector is given.
C22_DescendingDashIsAllPages ==
    IsDescendingDash(pageRange) =>
        /\ ParsePageRange(pageRange) = ParseOk(<<>>)
        /\ pc \in {"parse", "open", "return", "panic"} => pageNumbers = <<>>
        /\ SlotsMade =>
              /\ pageNumbers = RangeSeq(1, numPages)
              /\ Tasks = 1..numPages

\* C22 witness: the command run with "2-1" on a document of three pages
\* has ended after its generation loop dealt with pages 1, 2 and 3.
C22_Witness ==
    /\ pageRange = <<"2", "-", "1">>
    /\ numPages = 3
    /\ pc = "done"
    /\ pageNumbers = <<1, 2, 3>>
    /\ Len(genLog) = 3
    /\ \E i \in 1..3 : genLog[i].end = "generated"

DashBranchErrors ==
    {"invalid page range format", "invalid start page", "invalid end page"}

\* C23: for an expression that contains both '-' and ',' ParsePageRange
\* returns one of the dash branch's errors and no pages; it neither returns
\* a page sequence nor enters the comma branch (whose loop would panic).
C23_DashAndCommaIsError ==
    (pc = "parsed" /\ Contains(pageRange, "-") /\ Contains(pageRange, ",")) =>
        /\ parsed.kind = "err"
        /\ parsed.msg \in DashBranchErrors
        /\ parsed.pages = <<>>
        /\ pageNumbers = <<>>

\* C23 witness: "1-2," has been parsed: the end page "2," is no integer.
C23_Witness ==
    /\ pc = "parsed"
    /\ pageRange = <<"1", "-", "2", ",">>
    /\ parsed = ParseErr("invalid end page")

=============================================================================
